---- MODULE Spec2Model ----
(***************************************************************************)
(* Model of the two-stage availability verification of domain_generator.py *)
(* (DomainGenerator.check_domain_availability, DomainGenerator.whois_check *)
(* and DomainGenerator.batch_check_domains).                               *)
(*                                                                         *)
(* Python truth values are the strings "True", "False" and "None", so that *)
(* an Optional[bool] can be stored in a record field and compared the way  *)
(* Python compares it.  Text is a TLA+ string, searched and lower-cased    *)
(* character by character.                                                 *)
(***************************************************************************)
EXTENDS Integers, Sequences, FiniteSets, TLC

VARIABLES pc, domains, i, results, dns_available, j, received,
          dnsLog, whoisLog, lastDns, lastWhois, timeline,
          wpc, wcall, wresult,
          gpc, custom_words, partial_words, compulsory_word, generated

vars == <<pc, domains, i, results, dns_available, j, received,
          dnsLog, whoisLog, lastDns, lastWhois, timeline, wpc, wcall, wresult,
          gpc, custom_words, partial_words, compulsory_word, generated>>

batchVars == <<pc, domains, i, results, dns_available, j, received,
               dnsLog, whoisLog, lastDns, lastWhois, timeline>>

probeVars == <<wpc, wcall, wresult>>

genVars == <<gpc, custom_words, partial_words, compulsory_word, generated>>

----------------------------------------------------------------------------
(* Bounds of the model.                                                    *)

MaxBatch == 3

MaxFragments == 2

MaxReturnCode == 1

(* Candidate names a batch is drawn from.                                  *)
Candidates == {"alpha", "beta", "gamma"}

(* Pieces of WHOIS output; a response is a concatenation of pieces.        *)
Fragments ==
    { "No match for domain ",
      "NOT FOUND",
      "Registrar: GoDaddy",
      "Creation Date: 2020-01-01",
      "Name",
      "server: NS1",
      "Domain FOO.COM " }

----------------------------------------------------------------------------
(* Python values.                                                          *)

PyTrue == "True"

PyFalse == "False"

None == "None"

(* The result of a call that has not returned.                             *)
NoValue == "NoValue"

(* What the caller of batch_check_domains holds: nothing until `return`.   *)
NothingReceived == [delivered |-> FALSE, records |-> << >>]

----------------------------------------------------------------------------
(* Text: str.lower() and the substring test `pattern in text`.             *)

UpperCase == "ABCDEFGHIJKLMNOPQRSTUVWXYZ"

LowerCase == "abcdefghijklmnopqrstuvwxyz"

LowerChar(c) ==
    IF \E k \in 1..Len(UpperCase) : SubSeq(UpperCase, k, k) = c
    THEN LET k == CHOOSE k \in 1..Len(UpperCase) : SubSeq(UpperCase, k, k) = c
         IN  SubSeq(LowerCase, k, k)
    ELSE c

RECURSIVE lower(_)
lower(s) ==
    IF Len(s) = 0 THEN ""
    ELSE LowerChar(SubSeq(s, 1, 1)) \o lower(SubSeq(s, 2, Len(s)))

Contains(pattern, text) ==
    \E k \in 1..(Len(text) - Len(pattern) + 1) :
        SubSeq(text, k, k + Len(pattern) - 1) = pattern

not_found_patterns ==
    << "no match", "not found", "no entries found", "no data found",
       "domain not found", "no matching record", "available for registration" >>

registered_patterns ==
    << "creation date", "created", "registrar", "expiration date",
       "expires", "name server", "nameserver" >>

AnyPattern(patterns, text) ==
    \E k \in 1..Len(patterns) : Contains(patterns[k], text)

----------------------------------------------------------------------------
(* What the collaborators can do.                                          *)

(* socket.gethostbyname: it returns an address, raises socket.gaierror     *)
(* (name not found, or another resolver error such as a temporary          *)
(* failure), or raises an exception that is no gaierror: OSError when the  *)
(* resolver fails with EAI_SYSTEM, UnicodeError for a label that is empty  *)
(* or longer than 63 characters.                                           *)
DnsOutcomes ==
    {"resolved", "gaierror_noname", "gaierror_again", "OSError", "UnicodeError"}

GaiErrors == {"gaierror_noname", "gaierror_again"}

RECURSIVE TextsOfLen(_)
TextsOfLen(n) ==
    IF n = 0 THEN {""}
    ELSE {t \o f : t \in TextsOfLen(n - 1), f \in Fragments}

Texts == UNION {TextsOfLen(n) : n \in 0..MaxFragments}

ReturnCodes == 0..MaxReturnCode

(* subprocess.run(['whois', ...], timeout=10): it completes with an exit   *)
(* status and its standard output, raises subprocess.TimeoutExpired, or    *)
(* raises another Exception (FileNotFoundError without a whois binary).    *)
WhoisOutcomes ==
    [kind : {"completed"}, returncode : ReturnCodes, stdout : Texts]
    \cup [kind : {"TimeoutExpired", "Exception"}, returncode : {0}, stdout : {""}]

----------------------------------------------------------------------------
(* The two probes.                                                         *)

(* The result of a call that returns nothing because an exception leaves  *)
(* it.                                                                     *)
Raised == "Raised"

(* check_domain_availability: `except socket.gaierror` handles the         *)
(* resolver errors only; any other exception leaves the function.          *)
check_domain_availability(outcome) ==
    IF outcome = "resolved" THEN PyFalse
    ELSE IF outcome \in GaiErrors THEN PyTrue
    ELSE Raised

whois_check_registered_first(call) ==
    IF call.kind = "TimeoutExpired" THEN None
    ELSE IF call.kind = "Exception" THEN None
    ELSE IF call.returncode # 0 THEN PyTrue
    ELSE LET whois_output == lower(call.stdout)
         IN  IF AnyPattern(registered_patterns, whois_output) THEN PyFalse
             ELSE PyTrue

whois_check_ignore_status(call) ==
    IF call.kind = "TimeoutExpired" THEN None
    ELSE IF call.kind = "Exception" THEN None
    ELSE LET whois_output == lower(call.stdout)
         IN  IF AnyPattern(not_found_patterns, whois_output) THEN PyTrue
             ELSE IF AnyPattern(registered_patterns, whois_output) THEN PyFalse
             ELSE PyTrue

whois_check(call) ==
    IF call.kind = "TimeoutExpired" THEN None
    ELSE IF call.kind = "Exception" THEN None
    ELSE IF call.returncode # 0 THEN PyTrue
    ELSE LET whois_output == lower(call.stdout)
         IN  IF AnyPattern(not_found_patterns, whois_output) THEN PyTrue
             ELSE IF AnyPattern(registered_patterns, whois_output) THEN PyFalse
             ELSE PyTrue

(* What a WHOIS probe hands back to the pipeline, by kind of outcome;      *)
(* registrar tells whether the output named a registrar.                   *)
ProbeReturns ==
    {[kind |-> c.kind, returncode |-> c.returncode,
      registrar |-> Contains("registrar", lower(c.stdout)),
      result |-> whois_check(c)]
        : c \in WhoisOutcomes}

----------------------------------------------------------------------------
(* batch_check_domains.                                                    *)

Record(domain, is_dns_available) ==
    [ domain              |-> domain,
      dns_available       |-> is_dns_available,
      whois_available     |-> None,
      available           |-> is_dns_available,
      full_domain         |-> domain \o ".com",
      godaddy_url         |-> "https://www.godaddy.com/domainsearch/find?domainToCheck="
                                \o domain \o ".com",
      verification_method |-> "DNS only" ]

results_append_front(rs, result) == <<result>> \o rs

(* results.append(result)                                                  *)
results_append(rs, result) == Append(rs, result)

dns_available_append_front(survivors, position, is_dns_available) ==
    IF is_dns_available = PyTrue THEN <<position>> \o survivors ELSE survivors

dns_available_append_all(survivors, position, is_dns_available) ==
    Append(survivors, position)

(* `if is_dns_available: dns_available.append(result)`.  dns_available     *)
(* holds the same dict objects as results; the model holds their           *)
(* positions in results.                                                   *)
dns_available_append(survivors, position, is_dns_available) ==
    IF is_dns_available = PyTrue THEN Append(survivors, position) ELSE survivors

whois_update_keep_verdict(result, whois_result) ==
    IF whois_result # None
    THEN [result EXCEPT !.whois_available     = whois_result,
                        !.verification_method = "DNS + WHOIS"]
    ELSE [result EXCEPT !.whois_available     = whois_result,
                        !.verification_method = "DNS + WHOIS (timeout)"]

whois_update_no_tag(result, whois_result) ==
    IF whois_result # None
    THEN [result EXCEPT !.whois_available     = whois_result,
                        !.available           = whois_result,
                        !.verification_method = "DNS + WHOIS"]
    ELSE [result EXCEPT !.whois_available     = whois_result]

(* The stage-2 update of one record.                                       *)
whois_update(result, whois_result) ==
    IF whois_result # None
    THEN [result EXCEPT !.whois_available     = whois_result,
                        !.available           = whois_result,
                        !.verification_method = "DNS + WHOIS"]
    ELSE [result EXCEPT !.whois_available     = whois_result,
                        !.verification_method = "DNS + WHOIS (timeout)"]

next_survivor_retry(k) == k

(* The stage-2 loop takes the next element of dns_available.               *)
next_survivor(k) == k + 1

(* The pauses, in tenths of a second: time.sleep(0.1) and time.sleep(0.5). *)
DnsPause == 1

WhoisPause == 5

(* What batch_check_domains does, in the order it does it: a probe is      *)
(* called, it returns or raises, the loop sleeps.                          *)
Event(name) == [event |-> name, tenths |-> 0]

time_sleep(tl, tenths) == Append(tl, [event |-> "sleep", tenths |-> tenths])

(* time.sleep(0.1) at the end of a stage-1 iteration.                      *)
dns_pause(tl) == time_sleep(tl, DnsPause)

whois_pause_short(tl) == time_sleep(tl, DnsPause)

(* time.sleep(0.5) at the end of a stage-2 iteration.                      *)
whois_pause(tl) == time_sleep(tl, WhoisPause)

(* The generator of a run that generates nothing: the state __init__       *)
(* leaves.                                                                 *)
IdleGenerator ==
    /\ gpc = "idle"
    /\ custom_words = << >>
    /\ partial_words = << >>
    /\ compulsory_word = None
    /\ generated = {}

BatchInputs == UNION {[1..n -> Candidates] : n \in 0..MaxBatch}

NoCall == [domain |-> "", outcome |-> "", result |-> ""]

NoWhoisCall ==
    [position |-> 0, domain |-> "", kind |-> "", returncode |-> 0,
     registrar |-> FALSE, result |-> ""]

IdleProbe == [kind |-> "", returncode |-> 0, stdout |-> ""]

Init ==
    /\ domains \in BatchInputs
    /\ pc = "stage1"
    /\ i = 1
    /\ results = << >>
    /\ dns_available = << >>
    /\ j = 1
    /\ received = NothingReceived
    /\ dnsLog = << >>
    /\ whoisLog = << >>
    /\ lastDns = NoCall
    /\ lastWhois = NoWhoisCall
    /\ timeline = << >>
    /\ wpc = "idle"
    /\ wcall = IdleProbe
    /\ wresult = NoValue
    /\ IdleGenerator

(* One iteration of the stage-1 loop whose DNS probe returns.              *)
DnsStep ==
    /\ pc = "stage1"
    /\ i <= Len(domains)
    /\ \E outcome \in DnsOutcomes :
          LET domain == domains[i]
              is_dns_available == check_domain_availability(outcome)
              result == Record(domain, is_dns_available)
          IN  /\ is_dns_available # Raised
              /\ results' = results_append(results, result)
              /\ dns_available' =
                     dns_available_append(dns_available, Len(results'), is_dns_available)
              /\ dnsLog' = Append(dnsLog, domain)
              /\ lastDns' = [domain |-> domain, outcome |-> outcome,
                             result |-> is_dns_available]
    /\ timeline' = dns_pause(timeline \o <<Event("dns_call"), Event("dns_return")>>)
    /\ i' = i + 1
    /\ UNCHANGED <<pc, domains, j, received, whoisLog, lastWhois, probeVars, genVars>>

(* One iteration of the stage-1 loop whose DNS probe raises: the exception *)
(* leaves batch_check_domains, whose caller has no handler and no value.   *)
DnsRaise ==
    /\ pc = "stage1"
    /\ i <= Len(domains)
    /\ \E outcome \in DnsOutcomes :
          /\ check_domain_availability(outcome) = Raised
          /\ dnsLog' = Append(dnsLog, domains[i])
          /\ lastDns' = [domain |-> domains[i], outcome |-> outcome, result |-> Raised]
    /\ timeline' = timeline \o <<Event("dns_call"), Event("dns_raise")>>
    /\ pc' = "raised"
    /\ UNCHANGED <<domains, i, results, dns_available, j, received,
                   whoisLog, lastWhois, probeVars, genVars>>

(* The stage-1 loop is exhausted: `if dns_available:` enters stage 2.      *)
EndStage1 ==
    /\ pc = "stage1"
    /\ i > Len(domains)
    /\ pc' = IF Len(dns_available) > 0 THEN "stage2" ELSE "return"
    /\ UNCHANGED <<domains, i, results, dns_available, j, received,
                   dnsLog, whoisLog, lastDns, lastWhois, timeline, probeVars, genVars>>

(* One iteration of the stage-2 loop.                                      *)
WhoisStep ==
    /\ pc = "stage2"
    /\ j <= Len(dns_available)
    /\ \E probe \in ProbeReturns :
          LET position == dns_available[j]
              result == results[position]
              whois_result == probe.result
          IN  /\ results' = [results EXCEPT ![position] = whois_update(result, whois_result)]
              /\ whoisLog' = Append(whoisLog, [position |-> position,
                                               domain |-> result.domain])
              /\ lastWhois' = [position |-> position, domain |-> result.domain,
                               kind |-> probe.kind, returncode |-> probe.returncode,
                               registrar |-> probe.registrar, result |-> whois_result]
    /\ timeline' = whois_pause(timeline \o <<Event("whois_call"), Event("whois_return")>>)
    /\ j' = next_survivor(j)
    /\ UNCHANGED <<pc, domains, i, dns_available, received, dnsLog, lastDns, probeVars, genVars>>

EndStage2 ==
    /\ pc = "stage2"
    /\ j > Len(dns_available)
    /\ pc' = "return"
    /\ UNCHANGED <<domains, i, results, dns_available, j, received,
                   dnsLog, whoisLog, lastDns, lastWhois, timeline, probeVars, genVars>>

(* `return results`                                                        *)
Return ==
    /\ pc = "return"
    /\ pc' = "returned"
    /\ received' = [delivered |-> TRUE, records |-> results]
    /\ UNCHANGED <<domains, i, results, dns_available, j,
                   dnsLog, whoisLog, lastDns, lastWhois, timeline, probeVars, genVars>>

(* KeyboardInterrupt between two candidates (raised in time.sleep or in a *)
(* probe; neither `except socket.gaierror` nor `except Exception` handles  *)
(* it): it leaves batch_check_domains, which has no handler, so the local  *)
(* results list is dropped and the caller is handed nothing.               *)
Interrupt ==
    /\ pc \in {"stage1", "stage2"}
    /\ pc' = "interrupted"
    /\ UNCHANGED <<domains, i, results, dns_available, j, received,
                   dnsLog, whoisLog, lastDns, lastWhois, timeline, probeVars, genVars>>

Next ==
    \/ DnsStep
    \/ DnsRaise
    \/ EndStage1
    \/ WhoisStep
    \/ EndStage2
    \/ Return
    \/ Interrupt

Spec == Init /\ [][Next]_vars

----------------------------------------------------------------------------
(* whois_check on its own: one call on every outcome of the WHOIS query.   *)

InitWhois ==
    /\ domains = << >>
    /\ pc = "probe"
    /\ i = 1
    /\ results = << >>
    /\ dns_available = << >>
    /\ j = 1
    /\ received = NothingReceived
    /\ dnsLog = << >>
    /\ whoisLog = << >>
    /\ lastDns = NoCall
    /\ lastWhois = NoWhoisCall
    /\ timeline = << >>
    /\ wpc = "call"
    /\ wcall \in WhoisOutcomes
    /\ wresult = NoValue
    /\ IdleGenerator

WhoisCall ==
    /\ wpc = "call"
    /\ wresult' = whois_check(wcall)
    /\ wpc' = "done"
    /\ UNCHANGED <<wcall, batchVars, genVars>>

NextWhois == WhoisCall

SpecWhois == InitWhois /\ [][NextWhois]_vars

----------------------------------------------------------------------------
(* Properties.                                                             *)

Unique(seq) == \A a, b \in DOMAIN seq : a # b => seq[a] # seq[b]

DnsCalls(d) == Cardinality({k \in DOMAIN dnsLog : dnsLog[k] = d})

WhoisCalls(d) == Cardinality({k \in DOMAIN whoisLog : whoisLog[k].domain = d})

WhoisCallsAt(position) ==
    Cardinality({k \in DOMAIN whoisLog : whoisLog[k].position = position})

DnsTakenUntouched(records) ==
    \A k \in DOMAIN records :
        records[k].dns_available = PyFalse =>
            /\ WhoisCallsAt(k) = 0
            /\ records[k].whois_available = None
            /\ records[k].verification_method = "DNS only"

(* C1: in every state of batch_check_domains and in its returned result, a *)
(* candidate whose DNS probe returned false is never given to the WHOIS    *)
(* probe, its whois_available stays None and its verification_method stays *)
(* "DNS only"; while every record is DNS-taken (or there is none) no WHOIS *)
(* probe has been invoked at all.                                          *)
C1_DnsTakenNeverWhois ==
    /\ DnsTakenUntouched(results)
    /\ (pc = "returned" => DnsTakenUntouched(received.records))
    /\ ((\A k \in DOMAIN results : results[k].dns_available = PyFalse)
            => whoisLog = << >>)

C1_Witness ==
    /\ pc = "returned"
    /\ \E k \in DOMAIN received.records :
          received.records[k].dns_available = PyFalse
    /\ \E k \in DOMAIN received.records :
          received.records[k].dns_available = PyTrue /\ WhoisCallsAt(k) = 1

(* C2: in every returned record, available equals whois_available when     *)
(* that is True or False, and equals dns_available otherwise.              *)
C2_VerdictMerge ==
    pc = "returned" =>
        \A k \in DOMAIN received.records :
            LET r == received.records[k]
            IN  r.available = IF r.whois_available \in {PyTrue, PyFalse}
                              THEN r.whois_available
                              ELSE r.dns_available

C2_Witness ==
    /\ pc = "returned"
    /\ \E k \in DOMAIN received.records :
          /\ received.records[k].whois_available = PyFalse
          /\ received.records[k].dns_available = PyTrue
    /\ \E k \in DOMAIN received.records :
          /\ received.records[k].whois_available = None
          /\ received.records[k].dns_available = PyTrue
    /\ \E k \in DOMAIN received.records :
          received.records[k].dns_available = PyFalse

(* C3: over a batch of unique candidates no probe is invoked twice for a   *)
(* candidate, and when the run has returned the DNS probe was invoked      *)
(* exactly once for every candidate and the WHOIS probe exactly once for   *)
(* every candidate whose DNS probe returned true (and not at all for the   *)
(* others).                                                                *)
C3_ExactlyOnce ==
    Unique(domains) =>
        /\ \A d \in Candidates : DnsCalls(d) <= 1 /\ WhoisCalls(d) <= 1
        /\ pc = "returned" =>
              \A k \in DOMAIN domains :
                  /\ DnsCalls(domains[k]) = 1
                  /\ WhoisCalls(domains[k]) =
                        IF received.records[k].dns_available = PyTrue THEN 1 ELSE 0

C3_Witness ==
    /\ pc = "returned"
    /\ Unique(domains)
    /\ Len(domains) >= 2
    /\ Len(whoisLog) >= 2

(* C4: the returned list has one record per input candidate and its k-th   *)
(* record is the record of the k-th input candidate.                       *)
C4_OrderPreserved ==
    pc = "returned" =>
        /\ Len(received.records) = Len(domains)
        /\ \A k \in DOMAIN domains : received.records[k].domain = domains[k]

C4_Witness ==
    /\ pc = "returned"
    /\ Len(domains) >= 2
    /\ domains[1] # domains[2]
    /\ received.records[1].dns_available = PyFalse
    /\ received.records[2].dns_available = PyTrue
    /\ Len(whoisLog) >= 1

C6_NonZeroExitAvailable ==
    (lastWhois.kind = "completed" /\ lastWhois.returncode # 0) =>
        /\ lastWhois.result = PyTrue
        /\ results[lastWhois.position].whois_available = PyTrue
        /\ results[lastWhois.position].available = PyTrue
        /\ results[lastWhois.position].verification_method = "DNS + WHOIS"

C6_Witness ==
    /\ lastWhois.kind = "completed"
    /\ lastWhois.returncode # 0
    /\ lastWhois.registrar
    /\ results[lastWhois.position].available = PyTrue
    /\ pc = "returned"

UnclearKinds == {"TimeoutExpired", "Exception"}

UnclearHandled(tag) ==
    lastWhois.kind \in UnclearKinds =>
        /\ lastWhois.result = None
        /\ results[lastWhois.position].available =
              results[lastWhois.position].dns_available
        /\ results[lastWhois.position].verification_method = tag

MethodsWithin(tags) ==
    pc = "returned" =>
        \A k \in DOMAIN received.records :
            received.records[k].verification_method \in tags

C8_ProbeExceptionNeverAborts ==
    /\ pc # "raised"
    /\ lastDns.result # Raised
    /\ lastWhois.result # Raised

ResolutionFailures == DnsOutcomes \ {"resolved"}

(* C9 as claimed: check_domain_availability returns False exactly when the *)
(* resolution succeeds, and returns True for every resolution failure, of  *)
(* the name-not-found class or any other, without raising.                 *)
C9_ResolutionFailureIsAvailable ==
    lastDns.outcome \in DnsOutcomes =>
        /\ lastDns.result = PyFalse <=> lastDns.outcome = "resolved"
        /\ lastDns.outcome \in ResolutionFailures => lastDns.result = PyTrue

(* C10 as claimed: when the run is aborted between two candidates, after   *)
(* it has produced records, the caller receives the records produced up to *)
(* that point.                                                             *)
C10_PartialResultsDelivered ==
    (pc = "interrupted" /\ Len(results) > 0) =>
        /\ received.delivered
        /\ received.records = results

Calls(name) == {k \in DOMAIN timeline : timeline[k].event = name}

(* Two successive calls of one probe have a pause of that length between   *)
(* them.                                                                   *)
PausedBetween(name, tenths) ==
    \A a, b \in Calls(name) :
        a < b =>
            \E c \in (a + 1)..(b - 1) :
                timeline[c].event = "sleep" /\ timeline[c].tenths = tenths

(* The number of probes called and not yet returned after n events.        *)
InFlight(n) ==
    Cardinality({k \in 1..n : timeline[k].event \in {"dns_call", "whois_call"}})
    - Cardinality({k \in 1..n : timeline[k].event \in
                      {"dns_return", "dns_raise", "whois_return"}})

(* C11: between two successive DNS probe invocations there is a pause of   *)
(* 0.1, between two successive WHOIS probe invocations a pause of 0.5, and *)
(* at no point is more than one probe in flight.                           *)
C11_Throttled ==
    /\ PausedBetween("dns_call", 1)
    /\ PausedBetween("whois_call", 5)
    /\ \A n \in 0..Len(timeline) : InFlight(n) \in {0, 1}

C11_Witness ==
    /\ pc = "returned"
    /\ Cardinality(Calls("dns_call")) >= 2
    /\ Cardinality(Calls("whois_call")) >= 2

(* The positions of the DNS survivors among the first n records.           *)
SurvivorsUpTo(n) == {k \in 1..n : k <= Len(results) /\ results[k].dns_available = PyTrue}

(* C12: no WHOIS probe is invoked before the DNS probe has returned for    *)
(* every candidate of the batch, and the WHOIS probes go over the DNS      *)
(* survivors in the order of the input: the m-th WHOIS probe is for the    *)
(* m-th candidate whose DNS probe returned true.                           *)
C12_StageOrder ==
    /\ \A a \in Calls("whois_call") :
          /\ Cardinality({b \in 1..a : timeline[b].event = "dns_return"}) = Len(domains)
          /\ \A b \in Calls("dns_call") : b < a
    /\ \A m \in DOMAIN whoisLog :
          LET position == whoisLog[m].position
          IN  /\ position \in SurvivorsUpTo(Len(domains))
              /\ Cardinality(SurvivorsUpTo(position)) = m
              /\ whoisLog[m].domain = domains[position]

C12_Witness ==
    /\ pc = "returned"
    /\ Len(domains) >= 3
    /\ results[2].dns_available = PyFalse
    /\ Len(whoisLog) = 2
    /\ whoisLog[1].position = 1
    /\ whoisLog[2].position = 3

----------------------------------------------------------------------------
(* The name generator: the setters and generate_combinations.              *)

(* The category table of __init__.                                         *)
base_words ==
  [
    data |->
      << "data", "analytics", "insight", "metrics", "stats", "info",
         "intelligence", "knowledge", "facts", "records", "database",
         "warehouse", "mart", "lake", "stream", "flow", "pipeline",
         "etl", "transform", "process", "analyze", "compute",
         "calculate", "measure", "track", "monitor", "observe",
         "report", "dashboard", "visual", "chart", "graph", "trend",
         "pattern", "model", "algorithm", "machine", "learning", "ai",
         "neural", "deep", "smart", "intelligent", "automated",
         "digital", "tech", "cloud", "big", "fast", "real", "time",
         "instant", "quick", "rapid", "speed", "agile", "lean",
         "efficient", "optimal", "max", "super", "ultra", "mega", "pro",
         "plus", "hub", "lab", "works", "studio", "forge", "craft",
         "build", "make", "create", "generate", "produce", "deliver",
         "serve", "provide", "offer", "solution", "platform", "system",
         "framework", "engine", "core", "base", "foundation",
         "structure", "architecture", "design", "plan", "strategy" >>,
    tech |->
      << "tech", "technology", "digital", "software", "code", "dev",
         "developer", "programming", "app", "application", "web",
         "mobile", "cloud", "saas", "api", "system", "platform",
         "framework", "tool", "service", "solution", "innovation",
         "startup", "venture", "product", "build", "create", "develop" >>,
    business |->
      << "business", "company", "corp", "enterprise", "venture",
         "startup", "solutions", "services", "consulting", "strategy",
         "growth", "success", "profit", "revenue", "sales", "market",
         "brand", "professional", "expert", "leader", "management",
         "executive", "global", "international", "premium" >>,
    health |->
      << "health", "medical", "healthcare", "wellness", "fitness",
         "care", "clinic", "hospital", "doctor", "patient", "treatment",
         "therapy", "medicine", "pharma", "biotech", "life", "living",
         "healthy", "vital", "strong", "active", "energy" >>,
    finance |->
      << "finance", "financial", "money", "invest", "investment",
         "capital", "fund", "wealth", "rich", "profit", "revenue",
         "banking", "credit", "loan", "payment", "crypto", "blockchain",
         "trading", "market", "stock", "portfolio", "asset" >>,
    education |->
      << "education", "learning", "school", "university", "college",
         "course", "training", "teach", "student", "knowledge", "skill",
         "academy", "institute", "study", "research", "science",
         "academic", "scholar", "expert", "master" >>,
    creative |->
      << "creative", "design", "art", "artist", "studio", "agency",
         "media", "content", "brand", "marketing", "advertising",
         "visual", "graphic", "digital", "web", "ui", "ux",
         "experience", "innovative", "original" >>
  ]

connectors == << "", "and", "for", "the", "of", "in", "on", "at", "by", "with" >>

suffixes == << "ly", "hub", "lab", "pro", "max", "ai", "io", "app", "sys", "net" >>

(* The numbers generate_combinations attaches to a word.                   *)
numbers == << 1, 2, 3, 24, 7, 360, 100, 200, 500, 1000 >>

(* The sizes of the three random samples of generate_combinations.         *)
ThreeWordSample == 20

SuffixSample == 10

NumberSample == 15

(* The number of connectors a three-word name is built with:               *)
(* self.connectors[:3].                                                    *)
ConnectorCount == 3

Whitespace == {" ", "\t", "\n"}

RECURSIVE lstrip(_)
lstrip(s) ==
    IF Len(s) > 0 /\ SubSeq(s, 1, 1) \in Whitespace
    THEN lstrip(SubSeq(s, 2, Len(s)))
    ELSE s

RECURSIVE rstrip(_)
rstrip(s) ==
    IF Len(s) > 0 /\ SubSeq(s, Len(s), Len(s)) \in Whitespace
    THEN rstrip(SubSeq(s, 1, Len(s) - 1))
    ELSE s

(* str.strip()                                                             *)
strip(s) == rstrip(lstrip(s))

(* str.split(sep) for a separator of one character.                        *)
RECURSIVE split(_, _)
split(s, sep) ==
    IF \E k \in 1..Len(s) : SubSeq(s, k, k) = sep
    THEN LET k == CHOOSE k \in 1..Len(s) :
                     /\ SubSeq(s, k, k) = sep
                     /\ \A m \in 1..(k - 1) : SubSeq(s, m, m) # sep
         IN  <<SubSeq(s, 1, k - 1)>> \o split(SubSeq(s, k + 1, Len(s)), sep)
    ELSE <<s>>

(* [word.strip().lower() for word in words_input.split(',')                *)
(*  if word.strip()]                                                       *)
parse_words(words_input) ==
    LET parts == split(words_input, ",")
        kept == SelectSeq(parts, LAMBDA word : strip(word) # "")
    IN  [k \in DOMAIN kept |-> lower(strip(kept[k]))]

(* word.strip().lower() if word.strip() else None                          *)
parse_compulsory(word) ==
    IF strip(word) # "" THEN lower(strip(word)) ELSE None

Elements(seq) == {seq[k] : k \in DOMAIN seq}

(* get_word_list returns list(set(all_words)): the words without            *)
(* repetition, in an order the caller cannot rely on.                      *)
get_word_list(categories, custom, partial) ==
    UNION {Elements(base_words[c]) : c \in Elements(categories) \cap DOMAIN base_words}
    \cup Elements(custom)
    \cup Elements(partial)

(* The orders list(set(...)) can give.                                     *)
Orders(words) ==
    {f \in [1..Cardinality(words) -> words] :
        \A a, b \in DOMAIN f : a # b => f[a] # f[b]}

Min(a, b) == IF a < b THEN a ELSE b

(* random.sample(word_list, min(size, len(word_list)))                     *)
Samples(words, size) ==
    {sample \in SUBSET words : Cardinality(sample) = Min(size, Cardinality(words))}

(* generate_combinations for one order of the word list and one outcome of *)
(* each of its three samples.                                              *)
generate_combinations(word_list, num_words, include_numbers, sample_words, base_sample, number_sample) ==
    LET two_word ==
            IF num_words >= 2
            THEN {word_list[a] \o word_list[b] :
                    <<a, b>> \in {p \in (DOMAIN word_list) \X (DOMAIN word_list) : p[1] < p[2]}}
            ELSE {}
        three_word ==
            IF num_words >= 3
            THEN {t[1] \o connectors[t[2]] \o t[3] :
                    t \in {u \in sample_words \X (1..ConnectorCount) \X sample_words :
                              u[1] # u[3]}}
            ELSE {}
        with_suffix ==
            {word \o suffixes[k] : word \in base_sample, k \in DOMAIN suffixes}
        with_number ==
            IF include_numbers
            THEN {word \o ToString(numbers[k]) :
                    word \in number_sample, k \in DOMAIN numbers}
                 \cup {ToString(numbers[k]) \o word :
                    word \in number_sample, k \in DOMAIN numbers}
            ELSE {}
    IN  two_word \cup three_word \cup with_suffix \cup with_number

(* Bound of the model: num_words is drawn from 1..MaxNumWords.             *)
MaxNumWords == 3

(* What the user types for the custom and the partial words.               *)
WordInputs == {"", "go", "Data, hub"}

(* What the user types for the compulsory word.                            *)
CompulsoryInputs == {"hub", " Data ", "  "}

(* The category selections: none, or a name the table does not have.       *)
CategoryInputs == {<< >>, <<"other">>}

InitGen ==
    /\ domains = << >>
    /\ pc = "generator"
    /\ i = 1
    /\ results = << >>
    /\ dns_available = << >>
    /\ j = 1
    /\ received = NothingReceived
    /\ dnsLog = << >>
    /\ whoisLog = << >>
    /\ lastDns = NoCall
    /\ lastWhois = NoWhoisCall
    /\ timeline = << >>
    /\ wpc = "idle"
    /\ wcall = IdleProbe
    /\ wresult = NoValue
    /\ gpc = "configure"
    /\ custom_words = << >>
    /\ partial_words = << >>
    /\ compulsory_word = None
    /\ generated = {}

SetCustomWords ==
    /\ gpc = "configure"
    /\ \E words_input \in WordInputs : custom_words' = parse_words(words_input)
    /\ UNCHANGED <<gpc, partial_words, compulsory_word, generated, batchVars, probeVars>>

SetPartialWords ==
    /\ gpc = "configure"
    /\ \E words_input \in WordInputs : partial_words' = parse_words(words_input)
    /\ UNCHANGED <<gpc, custom_words, compulsory_word, generated, batchVars, probeVars>>

SetCompulsoryWord ==
    /\ gpc = "configure"
    /\ \E word \in CompulsoryInputs : compulsory_word' = parse_compulsory(word)
    /\ UNCHANGED <<gpc, custom_words, partial_words, generated, batchVars, probeVars>>

GenerateCombinations ==
    /\ gpc = "configure"
    /\ \E categories \in CategoryInputs, num_words \in 1..MaxNumWords,
          include_numbers \in BOOLEAN :
          LET words == get_word_list(categories, custom_words, partial_words)
          IN  \E word_list \in Orders(words),
                 sample_words \in Samples(words, ThreeWordSample),
                 base_sample \in Samples(words, SuffixSample),
                 number_sample \in Samples(words, NumberSample) :
                   generated' = generate_combinations(word_list, num_words, include_numbers,
                                                     sample_words, base_sample, number_sample)
    /\ gpc' = "generated"
    /\ UNCHANGED <<custom_words, partial_words, compulsory_word, batchVars, probeVars>>

NextGen ==
    \/ SetCustomWords
    \/ SetPartialWords
    \/ SetCompulsoryWord
    \/ GenerateCombinations

SpecGen == InitGen /\ [][NextGen]_vars

(* C13 as claimed: once a compulsory word is set, every name that          *)
(* generate_combinations returns contains it.                              *)
C13_CompulsoryWordInEveryName ==
    (gpc = "generated" /\ compulsory_word # None) =>
        \A name \in generated : Contains(compulsory_word, name)

====
